---- MODULE Spec2Model ----
(***************************************************************************)
(* A model of the Snail API wrapper (src/index.js): the class Snail, whose *)
(* constructor captures an API key and defines ten operations.  Each       *)
(* operation returns new Promise(async (resolve, reject) => {...}): the    *)
(* executor is an async function, so it runs synchronously up to its first *)
(* await, is resumed when the awaited promise settles, and an exception    *)
(* that escapes it rejects only the promise the async function itself      *)
(* returns, which the Promise constructor discards.  The promise handed to *)
(* the caller (the call's deferred) is settled by resolve and reject only. *)
(***************************************************************************)
EXTENDS Integers, Sequences, FiniteSets, TLC

(* Bounds of the model. *)
MaxClients == 2
MaxCalls == 1
MaxConcurrent == 2
MaxIds == 2

(***************************************************************************)
(* JavaScript values.  Every value is a record of the same shape: its type *)
(* tag t, its text s and its number n.                                     *)
(***************************************************************************)
Undefined == [t |-> "undefined", s |-> "", n |-> 0]
Str(x) == [t |-> "string", s |-> x, n |-> 0]
Num(k) == [t |-> "number", s |-> "", n |-> k]
False == [t |-> "boolean", s |-> "false", n |-> 0]
Error(msg) == [t |-> "Error", s |-> msg, n |-> 0]
Parsed(kind, content) == [t |-> kind, s |-> content, n |-> 0]

(* ToBoolean, as the operator ! applies it: undefined, "" and 0 are falsy. *)
Truthy(v) ==
  CASE v.t = "undefined" -> FALSE
    [] v.t = "string" -> v.s # ""
    [] v.t = "number" -> v.n # 0
    [] v.t = "boolean" -> v.s = "true"
    [] OTHER -> TRUE

(***************************************************************************)
(* JSON.stringify of the request bodies.  A property whose value is        *)
(* undefined is left out; strings are quoted (the inputs of the model hold *)
(* no character that needs escaping); numbers are written in decimal.      *)
(***************************************************************************)
Digits == <<"0", "1", "2", "3", "4", "5", "6", "7", "8", "9">>

RECURSIVE NumberToString(_)
NumberToString(k) ==
  IF k < 10 THEN Digits[k + 1]
  ELSE NumberToString(k \div 10) \o Digits[(k % 10) + 1]

Quote(x) == "\"" \o x \o "\""

JSONvalue(v) ==
  CASE v.t = "string" -> Quote(v.s)
    [] v.t = "number" -> NumberToString(v.n)
    [] OTHER -> "null"

RECURSIVE JoinComma(_)
JoinComma(texts) ==
  IF texts = << >> THEN ""
  ELSE IF Len(texts) = 1 THEN texts[1]
  ELSE texts[1] \o "," \o JoinComma(Tail(texts))

JSONarray(strings) ==
  "[" \o JoinComma([i \in 1..Len(strings) |-> Quote(strings[i])]) \o "]"

Prop(key, v) == [key |-> key, present |-> v.t # "undefined", text |-> JSONvalue(v)]
ArrayProp(key, strings) == [key |-> key, present |-> TRUE, text |-> JSONarray(strings)]

RECURSIVE Members(_)
Members(props) ==
  IF props = << >> THEN << >>
  ELSE IF props[1].present
       THEN <<Quote(props[1].key) \o ":" \o props[1].text>> \o Members(Tail(props))
       ELSE Members(Tail(props))

JSONstringify(props) == "{" \o JoinComma(Members(props)) \o "}"

(***************************************************************************)
(* The inputs of the model.                                                *)
(***************************************************************************)
KeyInputs == {Undefined, Str(""), Str("k1"), Str("k2")}
Codes == {"", "abc", "0123456789", "0123456789a"}
Names == {Undefined, Str(""), Str("Widget")}
Prices == {Undefined, Num(0), Num(5)}
Images == {Undefined, Str("aW1n")}
Amounts == {Num(5), Num(12)}
PaymentIds == {"a", "b"}
IdLists == UNION {[1..k -> PaymentIds] : k \in 0..MaxIds}
NoOptions == [image |-> Undefined, name |-> Undefined, price |-> Undefined]

(* What the transport may answer. *)
Statuses == {200, 201, 404}
StatusText(status) ==
  CASE status = 200 -> "OK"
    [] status = 201 -> "Created"
    [] status = 404 -> "Not Found"
    [] OTHER -> ""
Bodies == {"https://pay/x", "{\"id\":\"p1\"}", "[]"}
NoResponse == [status |-> 0, statusText |-> "", hasCatch |-> FALSE]

(* res.json(): the body parsed as JSON, or a SyntaxError. *)
ParseJSON(text) ==
  CASE text = "{\"id\":\"p1\"}" -> [ok |-> TRUE, value |-> Parsed("object", "id=p1")]
    [] text = "[]" -> [ok |-> TRUE, value |-> Parsed("array", "")]
    [] OTHER -> [ok |-> FALSE, value |-> Undefined]

ListOps == {"listPayments", "listSubscriptions", "listSubscriptionLinks",
            "listPaymentLinks", "listPayouts"}
LinkOps == {"createPaymentLink", "createSubscriptionLink"}
VoidOps == {"newPayout", "refundPayment"}
Ops == {"verifyPayment"} \cup LinkOps \cup ListOps \cup VoidOps

Base == "https://snailpay.app"
Path(op) ==
  CASE op = "verifyPayment" -> "/verify-payment?code="
    [] op = "createPaymentLink" -> "/payment-link"
    [] op = "createSubscriptionLink" -> "/subscription-link"
    [] op = "listPayments" -> "/payment-list"
    [] op = "listSubscriptions" -> "/subscription-list"
    [] op = "listSubscriptionLinks" -> "/subscription-link-list"
    [] op = "listPaymentLinks" -> "/payment-link-list"
    [] op = "listPayouts" -> "/payout"
    [] op = "newPayout" -> "/new-payout"
    [] op = "refundPayment" -> "/refund-payment"

KeyError == "You need to provide an API key!"
ValidationMessage == "You need to provide a name and a price for your product!"

VARIABLES
  clients,   \* the constructor invocations, in order
  calls,     \* the operation calls, in order
  requests   \* the requests handed to fetch, in order

vars == <<clients, calls, requests>>

(***************************************************************************)
(* The deferred of a call.  resolve and reject act once: after either has  *)
(* been called, both do nothing.  "locked" is a deferred resolved with a   *)
(* promise that has not settled yet.                                       *)
(***************************************************************************)
Pending == [state |-> "pending", value |-> Undefined]
ResolveAlways(d, v) == [state |-> "fulfilled", value |-> v]
Resolve(d, v) == IF d.state = "pending" THEN [state |-> "fulfilled", value |-> v] ELSE d
Reject(d, e) == IF d.state = "pending" THEN [state |-> "rejected", value |-> e] ELSE d
ResolveWithPromise(d) == IF d.state = "pending" THEN [state |-> "locked", value |-> Undefined] ELSE d

Init ==
  /\ clients = << >>
  /\ calls = << >>
  /\ requests = << >>

(***************************************************************************)
(* new Snail(apiKey)                                                       *)
(***************************************************************************)
(* arg is the argument given, threw what the constructor threw, apiKey the  *)
(* key its operations captured, and defined whether it got as far as       *)
(* defining the operations on the object.                                  *)
ConstructorUnchecked(apiKey) ==
  [arg |-> apiKey, threw |-> Undefined, apiKey |-> apiKey, defined |-> TRUE]
Constructor(apiKey) ==
  IF ~Truthy(apiKey)
  THEN [arg |-> apiKey, threw |-> Str(KeyError), apiKey |-> Undefined, defined |-> FALSE]
  ELSE [arg |-> apiKey, threw |-> Undefined, apiKey |-> apiKey, defined |-> TRUE]

New ==
  /\ Len(clients) < MaxClients
  /\ \E apiKey \in KeyInputs : clients' = Append(clients, Constructor(apiKey))
  /\ UNCHANGED <<calls, requests>>

(***************************************************************************)
(* fetch(url, init): the request is handed to the transport.               *)
(***************************************************************************)
HeadersOther(c) == [Authorization |-> clients[1].apiKey, ContentType |-> "application/json"]
Headers(c) == [Authorization |-> clients[c].apiKey, ContentType |-> "application/json"]

Request(k, c, method, url, hasBody, body) ==
  [call |-> k, method |-> method, url |-> url, headers |-> Headers(c),
   hasBody |-> hasBody, body |-> body, state |-> "sent", res |-> NoResponse]

Call(c, op, code, options, amount, payments, pc, deferred, req) ==
  [client |-> c, op |-> op, code |-> code, options |-> options, amount |-> amount,
   payments |-> payments, pc |-> pc, deferred |-> deferred, req |-> req, text |-> ""]

CanCall(c, op) ==
  /\ c \in 1..Len(clients)
  /\ op \in Ops
  /\ clients[c].defined

(* The executor of a call that reaches its fetch: the call awaits it. *)
Fetching(c, op, code, options, amount, payments, deferred, method, url, hasBody, body) ==
  /\ calls' = Append(calls, Call(c, op, code, options, amount, payments,
                                 "awaitFetch", deferred, Len(requests) + 1))
  /\ requests' = Append(requests, Request(Len(calls) + 1, c, method, url, hasBody, body))
  /\ UNCHANGED clients

(***************************************************************************)
(* The operations, each up to its first await.                             *)
(***************************************************************************)
CodeAtLeastTen(code) == Len(code) >= 10
CodeWellFormed(code) == Len(code) = 10

VerifyUrl(code) == Base \o Path("verifyPayment") \o code

verifyPayment(c, code) ==
  /\ CanCall(c, "verifyPayment")
  /\ IF ~CodeWellFormed(code)
     THEN /\ calls' = Append(calls, Call(c, "verifyPayment", code, NoOptions, Undefined,
                                         << >>, "returned", Resolve(Pending, False), 0))
          /\ UNCHANGED <<clients, requests>>
     ELSE Fetching(c, "verifyPayment", code, NoOptions, Undefined, << >>, Pending,
                   "GET", VerifyUrl(code), FALSE, "")

(* The validation of the link options: it rejects and does not return. *)
Validated(options) ==
  IF ~Truthy(options.name) \/ ~Truthy(options.price)
  THEN Reject(Pending, Error(ValidationMessage))
  ELSE Pending

LinkBody(options) ==
  JSONstringify(<<Prop("image", options.image), Prop("name", options.name),
                  Prop("price", options.price)>>)

CreateLink(c, op, options) ==
  /\ CanCall(c, op)
  /\ Fetching(c, op, "", options, Undefined, << >>, Validated(options),
              "POST", Base \o Path(op), TRUE, LinkBody(options))

createPaymentLink(c, options) == CreateLink(c, "createPaymentLink", options)
createSubscriptionLink(c, options) == CreateLink(c, "createSubscriptionLink", options)

List(c, op) ==
  /\ CanCall(c, op)
  /\ Fetching(c, op, "", NoOptions, Undefined, << >>, Pending,
              "GET", Base \o Path(op), FALSE, "")

listPayments(c) == List(c, "listPayments")
listSubscriptions(c) == List(c, "listSubscriptions")
listSubscriptionLinks(c) == List(c, "listSubscriptionLinks")
listPaymentLinks(c) == List(c, "listPaymentLinks")
listPayouts(c) == List(c, "listPayouts")

PayoutBody(amount) == JSONstringify(<<Prop("amount", amount)>>)

newPayout(c, amount) ==
  /\ CanCall(c, "newPayout")
  /\ Fetching(c, "newPayout", "", NoOptions, amount, << >>, Pending,
              "POST", Base \o Path("newPayout"), TRUE, PayoutBody(amount))

RefundBody(payments) == JSONstringify(<<ArrayProp("payments", payments)>>)

refundPayment(c, payments) ==
  /\ CanCall(c, "refundPayment")
  /\ Fetching(c, "refundPayment", "", NoOptions, Undefined, payments, Pending,
              "POST", Base \o Path("refundPayment"), TRUE, RefundBody(payments))

(***************************************************************************)
(* The transport: the promise fetch returned fulfils with a response or    *)
(* rejects.  The response object of the fetch standard has no method       *)
(* named catch; hasCatch is whether the transport in use gives it one.     *)
(***************************************************************************)
FetchFulfils(r) ==
  /\ requests[r].state = "sent"
  /\ \E status \in Statuses, hasCatch \in BOOLEAN :
       requests' = [requests EXCEPT ![r].state = "responded",
                      ![r].res = [status |-> status, statusText |-> StatusText(status),
                                  hasCatch |-> hasCatch]]
  /\ UNCHANGED <<clients, calls>>

FetchRejects(r) ==
  /\ requests[r].state = "sent"
  /\ requests' = [requests EXCEPT ![r].state = "failed"]
  /\ UNCHANGED <<clients, calls>>

(***************************************************************************)
(* The operations, from the settling of their fetch on.                    *)
(***************************************************************************)
Step(k, pc, deferred) ==
  /\ calls' = [calls EXCEPT ![k].pc = pc, ![k].deferred = deferred]
  /\ UNCHANGED <<clients, requests>>

(* The same, after the body of the response has been read as text. *)
StepRead(k, pc, deferred, text) ==
  /\ calls' = [calls EXCEPT ![k].pc = pc, ![k].deferred = deferred, ![k].text = text]
  /\ UNCHANGED <<clients, requests>>

Resumable(k, op) ==
  /\ calls[k].op = op
  /\ calls[k].pc = "awaitFetch"
  /\ requests[calls[k].req].state # "sent"

(* await fetch(...) throws when the fetch rejected; res.catch(reject)     *)
(* throws a TypeError when res has no catch.                              *)
AwaitThrows(r) == r.state = "failed"
ResCatchThrows(res) == ~res.hasCatch

Ok(res) == res.status = 200

RemoteError(res) == Error(res.statusText)

ResumeVerify(k) ==
  LET r == requests[calls[k].req]
      d == calls[k].deferred
  IN  /\ Resumable(k, "verifyPayment")
      /\ IF AwaitThrows(r) \/ ResCatchThrows(r.res) THEN Step(k, "threw", d)
         ELSE IF ~Ok(r.res) THEN Step(k, "returned", Resolve(d, False))
         ELSE Step(k, "jsonOutstanding", ResolveWithPromise(d))

(* res.json().catch(reject) settles: the deferred, resolved with that      *)
(* promise, follows it.  On a SyntaxError the handler calls reject, which  *)
(* does nothing any more, and the promise fulfils with undefined.          *)
Follow(d, v) == IF d.state = "locked" THEN [state |-> "fulfilled", value |-> v] ELSE d

VerifyJsonSettles(k) ==
  /\ calls[k].op = "verifyPayment"
  /\ calls[k].pc = "jsonOutstanding"
  /\ \E text \in Bodies :
       LET j == ParseJSON(text)
           d == calls[k].deferred
       IN  IF j.ok THEN StepRead(k, "returned", Follow(d, j.value), text)
           ELSE StepRead(k, "returned", Follow(Reject(d, Error("SyntaxError")), Undefined),
                         text)

ResumeLink(k, op) ==
  LET r == requests[calls[k].req]
      d == calls[k].deferred
  IN  /\ Resumable(k, op)
      /\ IF AwaitThrows(r) \/ ResCatchThrows(r.res) THEN Step(k, "threw", d)
         ELSE IF ~Ok(r.res) THEN Step(k, "returned", Reject(d, RemoteError(r.res)))
         ELSE Step(k, "awaitText", d)

LinkTextSettles(k, op) ==
  /\ calls[k].op = op
  /\ calls[k].pc = "awaitText"
  /\ \E text \in Bodies :
       StepRead(k, "returned", Resolve(calls[k].deferred, Str(text)), text)

ResumeList(k, op) ==
  LET r == requests[calls[k].req]
      d == calls[k].deferred
  IN  /\ Resumable(k, op)
      /\ IF AwaitThrows(r) \/ ResCatchThrows(r.res) THEN Step(k, "threw", d)
         ELSE IF ~Ok(r.res) THEN Step(k, "returned", Reject(d, RemoteError(r.res)))
         ELSE Step(k, "awaitJson", d)

ListJsonSettles(k, op) ==
  /\ calls[k].op = op
  /\ calls[k].pc = "awaitJson"
  /\ \E text \in Bodies :
       LET j == ParseJSON(text)
       IN  IF j.ok THEN StepRead(k, "returned", Resolve(calls[k].deferred, j.value), text)
           ELSE StepRead(k, "threw", calls[k].deferred, text)

ResumeVoid(k, op) ==
  LET r == requests[calls[k].req]
      d == calls[k].deferred
  IN  /\ Resumable(k, op)
      /\ IF AwaitThrows(r) \/ ResCatchThrows(r.res) THEN Step(k, "threw", d)
         ELSE IF ~Ok(r.res) THEN Step(k, "returned", Reject(d, RemoteError(r.res)))
         ELSE Step(k, "returned", Resolve(d, Undefined))

CallIds == 1..Len(calls)
ClientIds == 1..Len(clients)
RequestIds == 1..Len(requests)
AllOptions == [image : Images, name : Names, price : Prices]

(* The caller invokes an operation, with arguments from the given sets, *)
(* while it has made fewer than limit calls.                            *)
Callers(limit) == IF Len(calls) < limit THEN ClientIds ELSE {}

Invoke(limit, codes, optionses, amounts, idLists) ==
  \/ \E c \in Callers(limit), code \in codes : verifyPayment(c, code)
  \/ \E c \in Callers(limit), options \in optionses : createPaymentLink(c, options)
  \/ \E c \in Callers(limit), options \in optionses : createSubscriptionLink(c, options)
  \/ \E c \in Callers(limit) : listPayments(c)
  \/ \E c \in Callers(limit) : listSubscriptions(c)
  \/ \E c \in Callers(limit) : listSubscriptionLinks(c)
  \/ \E c \in Callers(limit) : listPaymentLinks(c)
  \/ \E c \in Callers(limit) : listPayouts(c)
  \/ \E c \in Callers(limit), amount \in amounts : newPayout(c, amount)
  \/ \E c \in Callers(limit), payments \in idLists : refundPayment(c, payments)

Transport ==
  \/ \E r \in RequestIds : FetchFulfils(r)
  \/ \E r \in RequestIds : FetchRejects(r)

Continue ==
  \/ \E k \in CallIds : ResumeVerify(k)
  \/ \E k \in CallIds : VerifyJsonSettles(k)
  \/ \E k \in CallIds : ResumeLink(k, "createPaymentLink")
  \/ \E k \in CallIds : ResumeLink(k, "createSubscriptionLink")
  \/ \E k \in CallIds : LinkTextSettles(k, "createPaymentLink")
  \/ \E k \in CallIds : LinkTextSettles(k, "createSubscriptionLink")
  \/ \E k \in CallIds, op \in ListOps : ResumeList(k, op)
  \/ \E k \in CallIds, op \in ListOps : ListJsonSettles(k, op)
  \/ \E k \in CallIds : ResumeVoid(k, "newPayout")
  \/ \E k \in CallIds : ResumeVoid(k, "refundPayment")

(* One call at a time, over all the inputs. *)
Next ==
  \/ New
  \/ Invoke(MaxCalls, Codes, AllOptions, Amounts, IdLists)
  \/ Transport
  \/ Continue

Spec == Init /\ [][Next]_vars

(* Concurrent calls on one or several clients, over a few inputs. *)
ConcCodes == {"abc", "0123456789"}
ConcOptions == {NoOptions, [image |-> Str("aW1n"), name |-> Str("Widget"), price |-> Num(5)]}
ConcAmounts == {Num(5)}
ConcIdLists == {<<"a", "b">>}

NextConc ==
  \/ New
  \/ Invoke(MaxConcurrent, ConcCodes, ConcOptions, ConcAmounts, ConcIdLists)
  \/ Transport
  \/ Continue

SpecConc == Init /\ [][NextConc]_vars

(***************************************************************************)
(* What the claims speak of.                                               *)
(***************************************************************************)
Finished(k) == calls[k].pc \in {"returned", "threw"}
RequestsOf(k) == {r \in RequestIds : requests[r].call = k}
Responded(k) == calls[k].req # 0 /\ requests[calls[k].req].state = "responded"
Failed(k) == calls[k].req # 0 /\ requests[calls[k].req].state = "failed"
Response(k) == requests[calls[k].req].res
Fulfilled(v) == [state |-> "fulfilled", value |-> v]
Rejected(e) == [state |-> "rejected", value |-> e]
Lacks(options) == options.name.t = "undefined" \/ options.price.t = "undefined"
BodyUnparseable(k) == calls[k].text # "" /\ ~ParseJSON(calls[k].text).ok
TransportFailure == Error("fetch failed")

(* The call sent exactly one request, of this method, url and body. *)
SentOnly(k, method, url, hasBody, body) ==
  \E r \in RequestIds :
    /\ RequestsOf(k) = {r}
    /\ requests[r].method = method
    /\ requests[r].url = url
    /\ requests[r].hasBody = hasBody
    /\ requests[r].body = body

DocumentedPath(op) ==
  CASE op = "listPayments" -> "https://snailpay.app/payment-list"
    [] op = "listSubscriptions" -> "https://snailpay.app/subscription-list"
    [] op = "listPaymentLinks" -> "https://snailpay.app/payment-link-list"
    [] op = "listSubscriptionLinks" -> "https://snailpay.app/subscription-link-list"
    [] op = "listPayouts" -> "https://snailpay.app/payout"
    [] op = "createPaymentLink" -> "https://snailpay.app/payment-link"
    [] op = "createSubscriptionLink" -> "https://snailpay.app/subscription-link"
    [] op = "newPayout" -> "https://snailpay.app/new-payout"
    [] op = "refundPayment" -> "https://snailpay.app/refund-payment"

(* C1: a link-creation call whose options lack a name or a price is        *)
(* rejected with the validation error and sends no request.                *)
C1_MissingFieldSendsNothing ==
  \A k \in CallIds :
    (calls[k].op \in LinkOps /\ Lacks(calls[k].options))
      => /\ calls[k].deferred = Rejected(Error(ValidationMessage))
         /\ RequestsOf(k) = {}

(* C2: when the fetch of a call fails, the call ends with its deferred     *)
(* rejected with that failure (not pending, not resolved), and the call    *)
(* has sent no second request.                                             *)
C2_TransportFailureRejects ==
  \A k \in CallIds :
    (Failed(k) /\ Finished(k))
      => /\ calls[k].deferred = Rejected(TransportFailure)
         /\ Cardinality(RequestsOf(k)) = 1

(* C3: verifyPayment with a code whose length is not 10 resolves to false  *)
(* and sends no request.                                                   *)
C3_MalformedCodeResolvesFalse ==
  \A k \in CallIds :
    (calls[k].op = "verifyPayment" /\ Len(calls[k].code) # 10)
      => /\ calls[k].deferred = Fulfilled(False)
         /\ calls[k].pc = "returned"
         /\ RequestsOf(k) = {}

C3_Witness ==
  \E k \in CallIds :
    /\ calls[k].op = "verifyPayment"
    /\ Len(calls[k].code) = 11
    /\ calls[k].deferred = Fulfilled(False)

(* C4: verifyPayment with a 10-character code sends one GET to             *)
(* /verify-payment?code=<code>; once its response has been handled, the    *)
(* call is resolved to the parsed JSON of the body when the status is 200  *)
(* and resolved to false for every other status.                           *)
C4_VerifyOutcome ==
  \A k \in CallIds :
    (calls[k].op = "verifyPayment" /\ Len(calls[k].code) = 10)
      => /\ SentOnly(k, "GET", "https://snailpay.app/verify-payment?code=" \o calls[k].code,
                     FALSE, "")
         /\ (Finished(k) /\ Responded(k))
              => IF Response(k).status = 200
                 THEN BodyUnparseable(k)
                        \/ /\ calls[k].text # ""
                           /\ calls[k].deferred = Fulfilled(ParseJSON(calls[k].text).value)
                 ELSE calls[k].deferred = Fulfilled(False)

(* C5: a link-creation call with a name and a price sends one POST to its  *)
(* path with body {image, name, price}; once its response has been         *)
(* handled, the call is resolved to the text of the body when the status   *)
(* is 200 and rejected with the status text for every other status.        *)
C5_LinkOutcome ==
  \A k \in CallIds :
    (calls[k].op \in LinkOps /\ Truthy(calls[k].options.name)
       /\ Truthy(calls[k].options.price))
      => /\ SentOnly(k, "POST", DocumentedPath(calls[k].op), TRUE,
                     LinkBody(calls[k].options))
         /\ (Finished(k) /\ Responded(k))
              => IF Response(k).status = 200
                 THEN calls[k].text # "" /\ calls[k].deferred = Fulfilled(Str(calls[k].text))
                 ELSE calls[k].deferred = Rejected(Error(Response(k).statusText))

(* C6: a list call sends one GET to its documented path; once its response *)
(* has been handled, the call is resolved to the parsed JSON of the body   *)
(* when the status is 200 and rejected with the status text otherwise.     *)
C6_ListOutcome ==
  \A k \in CallIds :
    calls[k].op \in ListOps
      => /\ SentOnly(k, "GET", DocumentedPath(calls[k].op), FALSE, "")
         /\ (Finished(k) /\ Responded(k))
              => IF Response(k).status = 200
                 THEN BodyUnparseable(k)
                        \/ /\ calls[k].text # ""
                           /\ calls[k].deferred = Fulfilled(ParseJSON(calls[k].text).value)
                 ELSE calls[k].deferred = Rejected(Error(Response(k).statusText))

(* C7: newPayout sends a POST to /new-payout with body {amount} and        *)
(* refundPayment a POST to /refund-payment with body {payments: ids}, the  *)
(* ids in the given order; once its response has been handled, the call is *)
(* resolved with no value when the status is 200 and rejected with the     *)
(* status text otherwise.                                                  *)
C7_VoidOutcome ==
  \A k \in CallIds :
    calls[k].op \in VoidOps
      => /\ SentOnly(k, "POST", DocumentedPath(calls[k].op), TRUE,
                     IF calls[k].op = "newPayout"
                     THEN "{\"amount\":" \o NumberToString(calls[k].amount.n) \o "}"
                     ELSE "{\"payments\":" \o JSONarray(calls[k].payments) \o "}")
         /\ (Finished(k) /\ Responded(k))
              => IF Response(k).status = 200
                 THEN calls[k].deferred = Fulfilled(Undefined)
                 ELSE calls[k].deferred = Rejected(Error(Response(k).statusText))

(* C8: new Snail(apiKey) throws when apiKey is absent or empty, and then   *)
(* defines no operation, so that no call is ever made on it; it succeeds   *)
(* and keeps the key for every non-empty string; and constructing sends no *)
(* request: as long as no operation was called, none has been sent.        *)
C8_ConstructionChecksKey ==
  /\ \A c \in ClientIds :
       /\ (clients[c].arg = Undefined \/ clients[c].arg = Str(""))
            => /\ clients[c].threw = Str(KeyError)
               /\ ~clients[c].defined
               /\ \A k \in CallIds : calls[k].client # c
       /\ (clients[c].arg.t = "string" /\ clients[c].arg.s # "")
            => /\ clients[c].threw = Undefined
               /\ clients[c].defined
               /\ clients[c].apiKey = clients[c].arg
  /\ calls = << >> => requests = << >>

C8_Witness ==
  \E c, d \in ClientIds :
    /\ clients[c].arg = Str("") /\ clients[c].threw = Str(KeyError)
    /\ clients[d].arg = Str("k2") /\ clients[d].threw = Undefined
    /\ \E k \in CallIds : calls[k].client = d

(* C9: with calls in flight at the same time on several clients, every     *)
(* request carries the key its call's client was constructed with, a       *)
(* client's key stays the one it was constructed with, and the outcome of  *)
(* a call is a function of its own arguments and its own response: two     *)
(* finished calls that agree on these agree on their outcome.              *)
SameExchange(j, k) ==
  /\ calls[j].op = calls[k].op
  /\ calls[j].code = calls[k].code
  /\ calls[j].options = calls[k].options
  /\ calls[j].amount = calls[k].amount
  /\ calls[j].payments = calls[k].payments
  /\ calls[j].text = calls[k].text
  /\ (calls[j].req = 0) = (calls[k].req = 0)
  /\ calls[j].req # 0
       => /\ requests[calls[j].req].state = requests[calls[k].req].state
          /\ requests[calls[j].req].res = requests[calls[k].req].res

C9_OwnKeyOwnResponse ==
  /\ \A r \in RequestIds :
       /\ requests[r].call \in CallIds
       /\ calls[requests[r].call].req = r
       /\ requests[r].headers.Authorization = clients[calls[requests[r].call].client].arg
       /\ requests[r].headers.ContentType = "application/json"
  /\ \A c \in ClientIds :
       clients[c].threw = Undefined => clients[c].apiKey = clients[c].arg
  /\ \A j, k \in CallIds :
       (Finished(j) /\ Finished(k) /\ SameExchange(j, k))
         => /\ calls[j].deferred = calls[k].deferred
            /\ calls[j].pc = calls[k].pc

C9_Witness ==
  \E j, k \in CallIds :
    /\ calls[j].client # calls[k].client
    /\ clients[calls[j].client].apiKey # clients[calls[k].client].apiKey
    /\ calls[j].req # 0 /\ calls[k].req # 0
    /\ requests[calls[j].req].state = "sent"
    /\ requests[calls[k].req].state = "sent"

(* C10: a deferred is settled at most once: once it is resolved or         *)
(* rejected, no later step changes its state or its value.  So a           *)
(* link-creation call rejected for a missing name or price keeps that      *)
(* rejection whatever response arrives later.                              *)
C10_FirstSettlementFinal ==
  [][\A k \in CallIds :
       calls[k].deferred.state \in {"fulfilled", "rejected"}
         => calls'[k].deferred = calls[k].deferred]_vars

C10_Witness ==
  \E k \in CallIds :
    /\ calls[k].op \in LinkOps
    /\ Lacks(calls[k].options)
    /\ Responded(k) /\ Response(k).status = 200
    /\ calls[k].pc = "returned" /\ calls[k].text # ""
    /\ calls[k].deferred = Rejected(Error(ValidationMessage))

====
